---- MODULE Spec2Model ----
(***************************************************************************)
(* Model of utils/code_analyzer.py: the compile / run / classify pipeline  *)
(* analyze_java_code, the output classifier parse_javac_output, the        *)
(* runtime classifier analyze_runtime_output and the static scanner        *)
(* detect_code_smells.                                                     *)
(*                                                                         *)
(* Texts.  A process output is a sequence of lines (joined by "\n"); each  *)
(* line is one of the message kinds of Messages.  A source text is the set *)
(* of the fragments of Fragments it contains, one per line.  A diagnostic  *)
(* id "a_b_c" is the tuple <<"a","b","c">> of its "_"-separated parts, so  *)
(* that id.split("_")[0] is id[1].                                         *)
(***************************************************************************)
EXTENDS Integers, Sequences, FiniteSets, TLC

(***************************************************************************)
(* Bounds                                                                  *)
(***************************************************************************)
\* Longest process output, in lines.
MaxOutLen == 1

\* Longest text handed to the classifier in the classifier-only specification.
MaxParseLen == 2

\* Longest source text, in lines, handed to find_public_class_name.
MaxDeclLen == 3

(***************************************************************************)
(* Process output                                                          *)
(***************************************************************************)
\* The kinds of output line.  len is the number of characters of the line,
\* blank says the line is white space only, exc / err say it carries the
\* signature  Exception in thread "..." X  /  Error in thread "..." X.
MsgInfo ==
  [ ws       |-> [len |-> 1,   blank |-> TRUE,  exc |-> FALSE, err |-> FALSE],
    semi     |-> [len |-> 32,  blank |-> FALSE, exc |-> FALSE, err |-> FALSE],
    incompat |-> [len |-> 60,  blank |-> FALSE, exc |-> FALSE, err |-> FALSE],
    npe      |-> [len |-> 57,  blank |-> FALSE, exc |-> TRUE,  err |-> FALSE],
    exc      |-> [len |-> 58,  blank |-> FALSE, exc |-> TRUE,  err |-> FALSE],
    err      |-> [len |-> 51,  blank |-> FALSE, exc |-> FALSE, err |-> TRUE],
    hello    |-> [len |-> 5,   blank |-> FALSE, exc |-> FALSE, err |-> FALSE],
    long     |-> [len |-> 600, blank |-> FALSE, exc |-> FALSE, err |-> FALSE] ]

Messages == DOMAIN MsgInfo

\* The lines the pipeline's child processes print.
PipelineMessages == {"ws", "semi", "npe", "hello"}

SeqsUpTo(S, n) == UNION {[1..k -> S] : k \in 0..n}

Outputs == SeqsUpTo(PipelineMessages, MaxOutLen)

ParseTexts == SeqsUpTo(Messages, MaxParseLen)

RECURSIVE LStrip(_)
LStrip(t) == IF t # <<>> /\ MsgInfo[Head(t)].blank THEN LStrip(Tail(t)) ELSE t

RECURSIVE RStrip(_)
RStrip(t) ==
  IF t # <<>> /\ MsgInfo[t[Len(t)]].blank THEN RStrip(SubSeq(t, 1, Len(t) - 1)) ELSE t

\* str.strip(): leading and trailing white space removed.
Strip(t) == RStrip(LStrip(t))

RECURSIVE SumLen(_)
SumLen(t) == IF t = <<>> THEN 0 ELSE MsgInfo[Head(t)].len + SumLen(Tail(t))

\* len(text): the lines and the "\n" between them.
TextLen(t) == IF t = <<>> THEN 0 ELSE SumLen(t) + (Len(t) - 1)

Min(a, b) == IF a < b THEN a ELSE b

(***************************************************************************)
(* Pattern library                                                         *)
(***************************************************************************)
\* A pattern is modelled by len (len(pat); 0 is the empty pattern), valid
\* (re.compile accepts it) and m, which maps each line kind the regex matches
\* to its m.group(0): glen characters, words the marker phrases that the
\* matched substring, in lower case, contains.
Markers ==
  {"expected", "';' expected", "illegal start", "incompatible types",
   "cannot convert", "lossy conversion"}

NoHits == [x \in {} |-> [glen |-> 0, words |-> {}]]

Hit(msg, glen, words) == [x \in {msg} |-> [glen |-> glen, words |-> words]]

R_missing_semicolon ==
  [id |-> <<"missing", "semicolon">>,
   pat |-> [len |-> 12, valid |-> TRUE, m |-> Hit("semi", 12, {"expected", "';' expected"})]]

R_missing_return ==
  [id |-> <<"missing", "return">>,
   pat |-> [len |-> 24, valid |-> TRUE, m |-> Hit("hello", 5, {})]]

R_incompatible_types ==
  [id |-> <<"incompatible", "types">>,
   pat |-> [len |-> 18, valid |-> TRUE, m |-> Hit("incompat", 18, {"incompatible types"})]]

R_type_mismatch ==
  [id |-> <<"type", "mismatch">>,
   pat |-> [len |-> 28, valid |-> TRUE, m |-> Hit("incompat", 60,
                     {"incompatible types", "lossy conversion"})]]

R_null_pointer ==
  [id |-> <<"null", "pointer">>,
   pat |-> [len |-> 20, valid |-> TRUE, m |-> Hit("npe", 20, {})]]

R_cannot_find_symbol ==
  [id |-> <<"cannot", "find", "symbol">>,
   pat |-> [len |-> 20, valid |-> TRUE,
            m |-> Hit("semi", 5, {}) @@ Hit("incompat", 5, {})]]

R_arithmetic_exception ==
  [id |-> <<"arithmetic", "exception">>,
   pat |-> [len |-> 0, valid |-> TRUE, m |-> NoHits]]

R_array_index_out_of_bounds ==
  [id |-> <<"array", "index", "out", "of", "bounds">>,
   pat |-> [len |-> 40, valid |-> FALSE,
            m |-> Hit("semi", 32, {"expected", "';' expected"})
                   @@ Hit("npe", 57, {})]]

R_identifier_expected ==
  [id |-> <<"identifier", "expected">>,
   pat |-> [len |-> 20, valid |-> TRUE, m |-> Hit("semi", 8, {"expected"})]]

R_lossy_conversion ==
  [id |-> <<"lossy", "conversion">>,
   pat |-> [len |-> 20, valid |-> TRUE,
            m |-> Hit("incompat", 25, {"lossy conversion"})]]

\* The rule tables common_java_errors.json may hold, in file order.
RuleTables ==
  { << R_missing_semicolon, R_cannot_find_symbol, R_null_pointer,
       R_incompatible_types, R_identifier_expected >>,
    << R_array_index_out_of_bounds, R_arithmetic_exception, R_cannot_find_symbol,
       R_null_pointer, R_missing_semicolon, R_type_mismatch,
       R_incompatible_types, R_missing_return, R_lossy_conversion >> }

(***************************************************************************)
(* Diagnostics                                                             *)
(***************************************************************************)
\* A diagnostic: its id, the component that made it (kind) and the length of
\* its detail string.
Diag(id, kind, dlen) == [id |-> id, kind |-> kind, detail_len |-> dlen]

\* match["id"].split("_")[0]
Category(id) == id[1]

Ids(ds) == {ds[i].id : i \in 1..Len(ds)}

\* s[:n]
Take(s, n) == SubSeq(s, 1, Min(n, Len(s)))

(***************************************************************************)
(* parse_javac_output                                                      *)
(***************************************************************************)
\* regex.search(output): the leftmost line the pattern matches, 0 if none.
Search(pat, output) ==
  LET hits == {i \in 1..Len(output) : output[i] \in DOMAIN pat.m}
  IN  IF hits = {} THEN 0 ELSE CHOOSE i \in hits : \A j \in hits : i <= j

\* Variant: a pattern that does not compile is searched like any other.
RuleMatches_IgnoresValid(rule, output) ==
  /\ rule.pat.len # 0
  /\ Search(rule.pat, output) # 0

\* Whether the loop body appends a match for this rule: the pattern is not
\* empty, compiles, and is found in the output.
RuleMatches(rule, output) ==
  /\ rule.pat.len # 0
  /\ rule.pat.valid
  /\ Search(rule.pat, output) # 0

\* The phrases of the any(...) test of the score.
BonusWords == {"incompatible types", "cannot convert", "lossy conversion"}

\* Variant: the bonus is never added.
Score_NoBonus(rule, output) == rule.pat.len * 10

\* len(pat) * 10 + (100 if the matched substring holds a bonus phrase else 0)
Score(rule, output) ==
  LET g == rule.pat.m[output[Search(rule.pat, output)]]
  IN  rule.pat.len * 10 + (IF g.words \cap BonusWords # {} THEN 100 ELSE 0)

\* The for loop over ERROR_PATTERNS.items(): scored_matches, in table order.
RECURSIVE ScoredMatches(_, _)
ScoredMatches(rules, output) ==
  IF rules = <<>> THEN <<>>
  ELSE LET rule == Head(rules)
           rest == ScoredMatches(Tail(rules), output)
       IN  IF RuleMatches(rule, output)
           THEN << [score |-> Score(rule, output),
                    id    |-> rule.id,
                    match |-> rule.pat.m[output[Search(rule.pat, output)]].glen] >>
                \o rest
           ELSE rest

\* Insert x into a list sorted by descending score, after every element whose
\* score is not smaller (list.sort is stable).
RECURSIVE InsertByScore(_, _)
InsertByScore(x, s) ==
  IF s = <<>> THEN <<x>>
  ELSE IF Head(s).score >= x.score
       THEN <<Head(s)>> \o InsertByScore(x, Tail(s))
       ELSE <<x>> \o s

\* Variant: the matches are left in table order.
SortByScore_Unsorted(s) == s

\* scored_matches.sort(key=score, reverse=True)
RECURSIVE SortByScore(_)
SortByScore(s) ==
  IF s = <<>> THEN <<>>
  ELSE InsertByScore(s[Len(s)], SortByScore(SubSeq(s, 1, Len(s) - 1)))

\* detail of a rule match: match[:200] + "..." if len(match) > 200 else match
MatchDetailLen(glen) == IF glen > 200 THEN 200 + 3 ELSE glen

\* Variant: every sorted match is kept, whatever its category.
RECURSIVE DedupByCategory_KeepsAll(_, _)
DedupByCategory_KeepsAll(sorted, seen_categories) ==
  IF sorted = <<>> THEN <<>>
  ELSE << Diag(Head(sorted).id, "rule", MatchDetailLen(Head(sorted).match)) >>
       \o DedupByCategory_KeepsAll(Tail(sorted), seen_categories)

\* The loop over the sorted matches: the first match of each category.
RECURSIVE DedupByCategory(_, _)
DedupByCategory(sorted, seen_categories) ==
  IF sorted = <<>> THEN <<>>
  ELSE LET match == Head(sorted)
           category == Category(match.id)
       IN  IF category \notin seen_categories
           THEN << Diag(match.id, "rule", MatchDetailLen(match.match)) >>
                \o DedupByCategory(Tail(sorted), seen_categories \cup {category})
           ELSE DedupByCategory(Tail(sorted), seen_categories)

\* Variant: the excerpt is not truncated.
FallbackDetailLen_Uncut(output) == TextLen(Strip(output)) + 3

\* detail of the fallback: output.strip()[:500] + "..."
FallbackDetailLen(output) == Min(500, TextLen(Strip(output))) + 3

\* Variant: no fallback is appended when no rule matches.
ParseMatches_NoFallback(rules, output) ==
  DedupByCategory(SortByScore(ScoredMatches(rules, output)), {})

\* matches before the final slice.
ParseMatches(rules, output) ==
  LET matches == DedupByCategory(SortByScore(ScoredMatches(rules, output)), {})
  IN  IF matches = <<>> /\ Strip(output) # <<>>
      THEN << Diag(<<"unknown">>, "fallback", FallbackDetailLen(output)) >>
      ELSE matches

\* Variant: the slice keeps three matches ("Max 3 suggestions").
parse_javac_output_Max3(rules, output) == Take(ParseMatches(rules, output), 3)

\* return matches[:1]
parse_javac_output(rules, output) == Take(ParseMatches(rules, output), 1)

(***************************************************************************)
(* analyze_runtime_output                                                  *)
(***************************************************************************)
HasException(output) == \E i \in 1..Len(output) : MsgInfo[output[i]].exc

HasError(output) == \E i \in 1..Len(output) : MsgInfo[output[i]].err

\* detail of the synthesized runtime diagnostics: output.split('\n')[0]
FirstLineLen(output) == IF output = <<>> THEN 0 ELSE MsgInfo[output[1]].len

\* Variant: an exception signature is reported without consulting the rules.
analyze_runtime_output_Synthesized(rules, output) ==
  IF HasException(output)
  THEN << Diag(<<"runtime", "exception">>, "runtime", FirstLineLen(output)) >>
  ELSE IF HasError(output)
       THEN << Diag(<<"runtime", "error">>, "runtime", FirstLineLen(output)) >>
       ELSE <<>>

\* Variant: the output is classified whether or not it carries a signature.
analyze_runtime_output_AlwaysParse(rules, output) ==
  parse_javac_output(rules, output)

analyze_runtime_output(rules, output) ==
  IF HasException(output)
  THEN LET runtime_matches == parse_javac_output(rules, output)
       IN  IF runtime_matches # <<>>
           THEN << runtime_matches[1] >>
           ELSE << Diag(<<"runtime", "exception">>, "runtime", FirstLineLen(output)) >>
  ELSE IF HasError(output)
       THEN << Diag(<<"runtime", "error">>, "runtime", FirstLineLen(output)) >>
       ELSE <<>>

(***************************************************************************)
(* Source text and detect_code_smells                                      *)
(***************************************************************************)
\* The lines a submitted source is built from.
Fragments ==
  {"Scanner", "nextInt()", "while(true)", "i<length", "Git", "edge", "@Test",
   "assert", "final class"}

Sources == SUBSET Fragments

\* The substrings (and regex matches) the modelled code looks for that occur
\* in a fragment, case-sensitively.
Occurs(f) ==
  CASE f = "Scanner"     -> {"Scanner"}
    [] f = "nextInt()"   -> {"nextInt()"}
    [] f = "while(true)" -> {"while(true)"}
    [] f = "i<length"    -> {"i<length"}
    [] f = "@Test"       -> {"@Test"}
    [] f = "assert"      -> {"assert"}
    [] f = "edge"        -> {"edge"}
    [] f = "final class" -> {"final class"}
    [] OTHER             -> {}

\* The same for code.lower().
OccursLower(f) ==
  CASE f = "Scanner"     -> {"scanner"}
    [] f = "Git"         -> {"git"}
    [] f = "assert"      -> {"assert"}
    [] f = "edge"        -> {"edge"}
    [] OTHER             -> {}

\* needle in code
In(needle, code) == \E f \in code : needle \in Occurs(f)

\* needle in code_lower
InLower(needle, code) == \E f \in code : needle \in OccursLower(f)

\* One scanner check: the finding it appends and whether it fires.
Check(id, dlen, fires) == [id |-> id, detail_len |-> dlen, fires |-> fires]

\* The checks of detect_code_smells that a source over Fragments can trigger,
\* in the order the function evaluates them.  Every other check needs a
\* substring that no fragment contains.  "i<length" stands for a match of
\* i\s*<=?\s*(length|size), "while(true)" and "for(;;)" for matches of the
\* two loop regexes.
SmellChecks(code) ==
  << Check(<<"1", "off", "by", "one">>, 36,
           In("i<length", code)),
     Check(<<"2", "infinite", "loop">>, 34,
           In("while(true)", code) \/ In("for(;;)", code)),
     Check(<<"51", "no", "tests">>, 33,
           ~In("JUnit", code) /\ ~In("@Test", code) /\ ~InLower("assert", code)),
     Check(<<"bp", "15", "validate", "input">>, 36,
           (In("Scanner", code) \/ In("BufferedReader", code))
             /\ ~InLower("validate", code)),
     Check(<<"bp", "16", "fail", "fast">>, 38,
           ~InLower("assert", code) /\ ~In("IllegalArgumentException", code)),
     Check(<<"bp", "17", "unit", "tests">>, 33,
           ~In("@Test", code) /\ ~In("JUnit", code)),
     Check(<<"bp", "18", "edge", "tests">>, 27,
           ~InLower("edge", code) /\ ~InLower("boundary", code)),
     Check(<<"bp", "19", "version", "control">>, 27,
           ~InLower("git", code)),
     Check(<<"bp", "28", "immutable">>, 33,
           ~In("final class", code) /\ ~In("record ", code)
             /\ ~InLower("immutable", code)) >>

\* Variant: a check that fires appends its finding twice.
RECURSIVE Issues_Twice(_)
Issues_Twice(checks) ==
  IF checks = <<>> THEN <<>>
  ELSE (IF Head(checks).fires
        THEN << Diag(Head(checks).id, "smell", Head(checks).detail_len),
                Diag(Head(checks).id, "smell", Head(checks).detail_len) >>
        ELSE <<>>) \o Issues_Twice(Tail(checks))

\* issues: one finding per check that fires, in check order.
RECURSIVE Issues(_)
Issues(checks) ==
  IF checks = <<>> THEN <<>>
  ELSE (IF Head(checks).fires
        THEN << Diag(Head(checks).id, "smell", Head(checks).detail_len) >>
        ELSE <<>>) \o Issues(Tail(checks))

\* Variant: the function returns before the best-practice checks.
detect_code_smells_MistakesOnly(code) == Issues(SubSeq(SmellChecks(code), 1, 3))

detect_code_smells(code) == Issues(SmellChecks(code))

\* Variant: the guard looks for nextLine() only.
RequiresInput_NextLineOnly(code) ==
  In("Scanner", code) /\ In("nextLine()", code)

\* The input guard's test.
RequiresInput(code) ==
  In("Scanner", code)
    /\ (In("nextInt()", code) \/ In("nextLine()", code) \/ In("next()", code))

(***************************************************************************)
(* analyze_java_code                                                       *)
(***************************************************************************)
VARIABLES
  ERROR_PATTERNS,   \* the rule table loaded at import
  which,            \* shutil.which: whether javac / java are on the host
  code,             \* the argument of the call
  pc,               \* the statement the call is at
  code_smells,      \* the held scanner findings
  tmpdir,           \* the TemporaryDirectory: "none", "exists", "removed"
  compile_proc,     \* the javac child: "none", "running", "exited"
  returncode,       \* compile_proc.returncode
  compile_output,   \* compile_proc.stdout + compile_proc.stderr
  run_proc,         \* the java child: "none", "running", "exited", "killed"
  runtime_output,   \* run_proc.stdout + run_proc.stderr
  result,           \* the returned dictionary
  exit_path,        \* the return statement taken
  scans,            \* number of detect_code_smells calls so far
  spawns,           \* the child processes started so far, in order
  output,           \* the argument of a direct call of parse_javac_output,
                    \* analyze_runtime_output or find_public_class_name
  matches,          \* what that call returned
  tmp_name,         \* the path of the call's TemporaryDirectory, "" before
  fs,               \* the workspace directories that exist on the host
  parked            \* the local state of a second call that is not running

vars ==
  << ERROR_PATTERNS, which, code, pc, code_smells, tmpdir, compile_proc,
     returncode, compile_output, run_proc, runtime_output, result, exit_path,
     scans, spawns, output, matches, tmp_name, fs, parked >>

Result(success, cout, rout, errors) ==
  [success |-> success, compile_output |-> cout, runtime_output |-> rout,
   errors |-> errors]

NoResult == Result(FALSE, <<>>, <<>>, <<>>)

\* "Program execution timed out."
TimedOutNotice == << "Program execution timed out." >>

java_not_available == Diag(<<"java", "not", "available">>, "guard", 42)

requires_input == Diag(<<"requires", "input">>, "guard", 22)

timeout_error == << Diag(<<"timeout">>, "timeout", 23) >>

\* for err in errs: if id not in seen_ids: append, add to seen_ids
RECURSIVE AppendUnseen(_, _)
AppendUnseen(acc, errs) ==
  IF errs = <<>> THEN acc
  ELSE IF Head(errs).id \notin Ids(acc)
       THEN AppendUnseen(Append(acc, Head(errs)), Tail(errs))
       ELSE AppendUnseen(acc, Tail(errs))

\* The timeout handler's smell loop: seen_ids holds the ids of timeout_error
\* only, it is not extended while the smells are appended.
RECURSIVE AppendNotIn(_, _, _)
AppendNotIn(acc, seen_ids, smells) ==
  IF smells = <<>> THEN acc
  ELSE IF Head(smells).id \notin seen_ids
       THEN AppendNotIn(Append(acc, Head(smells)), seen_ids, Tail(smells))
       ELSE AppendNotIn(acc, seen_ids, Tail(smells))

\* Variant: the held smells are appended to the compile errors.
CompileErrors_WithSmells(rules, cout) ==
  AppendUnseen(AppendUnseen(<<>>, parse_javac_output(rules, cout)), code_smells)

\* Step 5: the compile errors, deduplicated by id.
CompileErrors(rules, cout) == AppendUnseen(<<>>, parse_javac_output(rules, cout))

\* Variant: the smells are merged before the runtime diagnostics.
AllErrors_SmellsFirst(rules, rout, smells) ==
  AppendUnseen(AppendUnseen(<<>>, smells), analyze_runtime_output(rules, rout))

\* Variant: the smells are not merged.
AllErrors_NoSmells(rules, rout, smells) ==
  AppendUnseen(<<>>, analyze_runtime_output(rules, rout))

\* Step 8: runtime diagnostics, then the smells, deduplicated by id.
AllErrors(rules, rout, smells) ==
  AppendUnseen(AppendUnseen(<<>>, analyze_runtime_output(rules, rout)), smells)

\* Variant: the slice keeps two entries.
ReturnedErrors_Two(all_errors) == Take(all_errors, 2)

\* Step 8, the returned list: all_errors[:3]
ReturnedErrors(all_errors) == Take(all_errors, 3)

\* Variant: the smells are listed before the timeout diagnostic.
Combined_SmellsFirst(smells) ==
  AppendNotIn(<<>>, Ids(timeout_error), smells) \o timeout_error

\* Step 10: the timeout diagnostic, then the smells.
Combined(smells) == AppendNotIn(timeout_error, Ids(timeout_error), smells)

\* The names a workspace directory can get.
DirNames == {"tmp1", "tmp2"}

\* Variant: the workspace always gets the same name.
mkdtemp_Fixed(dirs) == "tmp1"

\* tempfile.mkdtemp: a directory name that does not exist yet.
mkdtemp(dirs) == CHOOSE n \in DirNames : n \notin dirs

\* The local state of a call that has not executed a statement yet.
FreshCall(c) ==
  [code |-> c, pc |-> "GuardEnvironment", code_smells |-> <<>>,
   tmpdir |-> "none", tmp_name |-> "", compile_proc |-> "none",
   returncode |-> 0, compile_output |-> <<>>, run_proc |-> "none",
   runtime_output |-> <<>>, result |-> NoResult, exit_path |-> "none",
   scans |-> 0, spawns |-> <<>>]

\* There is no second call.
Absent == [FreshCall({}) EXCEPT !.pc = "absent"]

Init ==
  /\ ERROR_PATTERNS \in RuleTables
  /\ which \in [javac : BOOLEAN, java : BOOLEAN]
  /\ code \in Sources
  /\ pc = "GuardEnvironment"
  /\ code_smells = <<>>
  /\ tmpdir = "none"
  /\ compile_proc = "none"
  /\ returncode = 0
  /\ compile_output = <<>>
  /\ run_proc = "none"
  /\ runtime_output = <<>>
  /\ result = NoResult
  /\ exit_path = "none"
  /\ scans = 0
  /\ spawns = <<>>
  /\ output = <<>>
  /\ matches = <<>>
  /\ tmp_name = ""
  /\ fs = {}
  /\ parked = Absent

\* Variant: the guard trips only when both executables are missing.
GuardEnvironment_BothMissing ==
  /\ pc = "GuardEnvironment"
  /\ IF ~which.javac /\ ~which.java
     THEN /\ result' = Result(FALSE, <<>>, <<>>, << java_not_available >>)
          /\ exit_path' = "env"
          /\ pc' = "returned"
     ELSE /\ pc' = "GuardInput"
          /\ UNCHANGED << result, exit_path >>
  /\ UNCHANGED << output, matches, ERROR_PATTERNS, which, code, code_smells,
                  tmpdir, compile_proc, returncode, compile_output, run_proc,
                  runtime_output, scans, spawns >>
  /\ UNCHANGED << tmp_name, fs, parked >>

\* What a child process of a call may print: any output when the call runs
\* alone, one of three sample outputs when two calls run side by side.
ChildOutputs ==
  IF parked.pc = "absent" THEN Outputs ELSE {<<>>, <<"semi">>, <<"npe">>}

\* 0. Environment guard.
GuardEnvironment ==
  /\ pc = "GuardEnvironment"
  /\ IF ~which.javac \/ ~which.java
     THEN /\ result' = Result(FALSE, <<>>, <<>>, << java_not_available >>)
          /\ exit_path' = "env"
          /\ pc' = "returned"
     ELSE /\ pc' = "GuardInput"
          /\ UNCHANGED << result, exit_path >>
  /\ UNCHANGED << output, matches, ERROR_PATTERNS, which, code, code_smells, tmpdir, compile_proc,
                  returncode, compile_output, run_proc, runtime_output, scans,
                  spawns >>
  /\ UNCHANGED << tmp_name, fs, parked >>

\* Variant: the scanner call is skipped.
GuardInput_SkipsScan ==
  /\ pc = "GuardInput"
  /\ IF RequiresInput(code)
     THEN /\ result' = Result(FALSE, <<>>, <<>>, << requires_input >>)
          /\ exit_path' = "input"
          /\ pc' = "returned"
     ELSE /\ pc' = "WriteSource"
          /\ UNCHANGED << result, exit_path >>
  /\ UNCHANGED << output, matches, ERROR_PATTERNS, which, code, code_smells,
                  tmpdir, compile_proc, returncode, compile_output, run_proc,
                  runtime_output, scans, spawns >>
  /\ UNCHANGED << tmp_name, fs, parked >>

\* 1. Input guard.
GuardInput ==
  /\ pc = "GuardInput"
  /\ IF RequiresInput(code)
     THEN /\ result' = Result(FALSE, <<>>, <<>>, << requires_input >>)
          /\ exit_path' = "input"
          /\ pc' = "returned"
     ELSE /\ pc' = "Scan"
          /\ UNCHANGED << result, exit_path >>
  /\ UNCHANGED << output, matches, ERROR_PATTERNS, which, code, code_smells, tmpdir, compile_proc,
                  returncode, compile_output, run_proc, runtime_output, scans,
                  spawns >>
  /\ UNCHANGED << tmp_name, fs, parked >>

\* 2. code_smells = detect_code_smells(code)
Scan ==
  /\ pc = "Scan"
  /\ code_smells' = detect_code_smells(code)
  /\ scans' = scans + 1
  /\ pc' = "WriteSource"
  /\ UNCHANGED << output, matches, ERROR_PATTERNS, which, code, tmpdir, compile_proc, returncode,
                  compile_output, run_proc, runtime_output, result, exit_path,
                  spawns >>
  /\ UNCHANGED << tmp_name, fs, parked >>

\* 3. The workspace is created and the source file written.
WriteSource ==
  /\ pc = "WriteSource"
  /\ tmpdir' = "exists"
  /\ tmp_name' = mkdtemp(fs)
  /\ fs' = fs \cup {mkdtemp(fs)}
  /\ UNCHANGED parked
  /\ pc' = "Compile"
  /\ UNCHANGED << output, matches, ERROR_PATTERNS, which, code, code_smells, compile_proc,
                  returncode, compile_output, run_proc, runtime_output, result,
                  exit_path, scans, spawns >>

\* 3. tempfile.TemporaryDirectory() raises: no workspace, the call raises.
CreateWorkspaceFails ==
  /\ pc = "WriteSource"
  /\ exit_path' = "io"
  /\ pc' = "raised"
  /\ UNCHANGED << output, matches, ERROR_PATTERNS, which, code, code_smells, tmpdir, compile_proc,
                  returncode, compile_output, run_proc, runtime_output, result,
                  scans, spawns >>
  /\ UNCHANGED << tmp_name, fs, parked >>

\* 3. java_file.write_text raises inside the with block: the context manager
\* removes the workspace and the call raises.
WriteFileFails ==
  /\ pc = "WriteSource"
  /\ tmpdir' = "removed"
  /\ fs' = fs \ {tmp_name}
  /\ UNCHANGED << tmp_name, parked >>
  /\ exit_path' = "io"
  /\ pc' = "raised"
  /\ UNCHANGED << output, matches, ERROR_PATTERNS, which, code, code_smells, compile_proc,
                  returncode, compile_output, run_proc, runtime_output, result,
                  scans, spawns >>

\* 4. subprocess.run(["javac", ...]) starts the compiler.
Compile ==
  /\ pc = "Compile"
  /\ compile_proc' = "running"
  /\ spawns' = Append(spawns, "javac")
  /\ pc' = "CompileWait"
  /\ UNCHANGED << output, matches, ERROR_PATTERNS, which, code, code_smells, tmpdir, returncode,
                  compile_output, run_proc, runtime_output, result, exit_path,
                  scans >>
  /\ UNCHANGED << tmp_name, fs, parked >>

\* 4. The compiler exits; its status and output are captured.
CompilerExits ==
  /\ pc = "CompileWait"
  /\ \E rc \in {0, 1}, out \in ChildOutputs :
       /\ returncode' = rc
       /\ compile_output' = out
  /\ compile_proc' = "exited"
  /\ pc' = "CheckCompile"
  /\ UNCHANGED << output, matches, ERROR_PATTERNS, which, code, code_smells, tmpdir, run_proc,
                  runtime_output, result, exit_path, scans, spawns >>
  /\ UNCHANGED << tmp_name, fs, parked >>

\* The table without the rules of the given ids.
RECURSIVE WithoutRules(_, _)
WithoutRules(rules, ids) ==
  IF rules = <<>> THEN <<>>
  ELSE (IF Head(rules).id \in ids THEN <<>> ELSE << Head(rules) >>)
       \o WithoutRules(Tail(rules), ids)

\* Variant: the rule that was reported is taken out of the shared table.
CompileFailed_ConsumesRule ==
  /\ pc = "CheckCompile"
  /\ returncode # 0
  /\ result' = Result(FALSE, compile_output, <<>>,
                      CompileErrors(ERROR_PATTERNS, compile_output))
  /\ ERROR_PATTERNS' =
       WithoutRules(ERROR_PATTERNS,
                    Ids(CompileErrors(ERROR_PATTERNS, compile_output)))
  /\ tmpdir' = "removed"
  /\ fs' = fs \ {tmp_name}
  /\ UNCHANGED << tmp_name, parked >>
  /\ exit_path' = "compile"
  /\ pc' = "returned"
  /\ UNCHANGED << output, matches, which, code, code_smells, compile_proc,
                  returncode, compile_output, run_proc, runtime_output, scans,
                  spawns >>

\* Variant: compiler text alone is taken for a failed compilation.
CompileFailed_OnAnyOutput ==
  /\ pc = "CheckCompile"
  /\ returncode # 0 \/ compile_output # <<>>
  /\ result' = Result(FALSE, compile_output, <<>>,
                      CompileErrors(ERROR_PATTERNS, compile_output))
  /\ tmpdir' = "removed"
  /\ fs' = fs \ {tmp_name}
  /\ UNCHANGED << tmp_name, parked >>
  /\ exit_path' = "compile"
  /\ pc' = "returned"
  /\ UNCHANGED << output, matches, ERROR_PATTERNS, which, code, code_smells,
                  compile_proc, returncode, compile_output, run_proc,
                  runtime_output, scans, spawns >>

\* 5. Compilation failed.
CompileFailed ==
  /\ pc = "CheckCompile"
  /\ returncode # 0
  /\ result' = Result(FALSE, compile_output, <<>>,
                      CompileErrors(ERROR_PATTERNS, compile_output))
  /\ tmpdir' = "removed"
  /\ fs' = fs \ {tmp_name}
  /\ UNCHANGED << tmp_name, parked >>
  /\ exit_path' = "compile"
  /\ pc' = "returned"
  /\ UNCHANGED << output, matches, ERROR_PATTERNS, which, code, code_smells, compile_proc,
                  returncode, compile_output, run_proc, runtime_output, scans,
                  spawns >>

\* Variant: the program is started whatever the compiler's exit status.
RunProgram_IgnoresStatus ==
  /\ pc = "CheckCompile"
  /\ run_proc' = "running"
  /\ spawns' = Append(spawns, "java")
  /\ pc' = "RunWait"
  /\ UNCHANGED << output, matches, ERROR_PATTERNS, which, code, code_smells,
                  tmpdir, compile_proc, returncode, compile_output,
                  runtime_output, result, exit_path, scans >>
  /\ UNCHANGED << tmp_name, fs, parked >>

\* 6. subprocess.run(["java", ...], timeout=5) starts the program.
RunProgram ==
  /\ pc = "CheckCompile"
  /\ returncode = 0
  /\ run_proc' = "running"
  /\ spawns' = Append(spawns, "java")
  /\ pc' = "RunWait"
  /\ UNCHANGED << output, matches, ERROR_PATTERNS, which, code, code_smells, tmpdir, compile_proc,
                  returncode, compile_output, runtime_output, result, exit_path,
                  scans >>
  /\ UNCHANGED << tmp_name, fs, parked >>

\* 6. The program exits before the deadline.
ProgramExits ==
  /\ pc = "RunWait"
  /\ \E out \in ChildOutputs : runtime_output' = out
  /\ run_proc' = "exited"
  /\ pc' = "ClassifyRuntime"
  /\ UNCHANGED << output, matches, ERROR_PATTERNS, which, code, code_smells, tmpdir, compile_proc,
                  returncode, compile_output, result, exit_path, scans, spawns >>
  /\ UNCHANGED << tmp_name, fs, parked >>

\* 6. The program exits before the deadline but its output is not valid in
\* the locale encoding: text=True makes subprocess.run raise
\* UnicodeDecodeError, which no handler catches; the with block removes the
\* workspace and the call raises.
ProgramOutputUndecodable ==
  /\ pc = "RunWait"
  /\ run_proc' = "exited"
  /\ tmpdir' = "removed"
  /\ fs' = fs \ {tmp_name}
  /\ UNCHANGED << tmp_name, parked >>
  /\ exit_path' = "decode"
  /\ pc' = "raised"
  /\ UNCHANGED << output, matches, ERROR_PATTERNS, which, code, code_smells,
                  compile_proc, returncode, compile_output, runtime_output,
                  result, scans, spawns >>

\* Variant: TimeoutExpired is raised without killing the child.
DeadlineExpires_NoKill ==
  /\ pc = "RunWait"
  /\ pc' = "TimedOut"
  /\ UNCHANGED << output, matches, ERROR_PATTERNS, which, code, code_smells,
                  tmpdir, compile_proc, returncode, compile_output, run_proc,
                  runtime_output, result, exit_path, scans, spawns >>
  /\ UNCHANGED << tmp_name, fs, parked >>

\* 6. The deadline passes: subprocess.run kills the child and raises
\* TimeoutExpired.
DeadlineExpires ==
  /\ pc = "RunWait"
  /\ run_proc' = "killed"
  /\ pc' = "TimedOut"
  /\ UNCHANGED << output, matches, ERROR_PATTERNS, which, code, code_smells, tmpdir, compile_proc,
                  returncode, compile_output, runtime_output, result, exit_path,
                  scans, spawns >>
  /\ UNCHANGED << tmp_name, fs, parked >>

\* 7 - 9. Classify the runtime output, merge with the smells, return.
Aggregate ==
  /\ pc = "ClassifyRuntime"
  /\ LET all_errors == AllErrors(ERROR_PATTERNS, runtime_output, code_smells)
     IN  IF all_errors # <<>>
         THEN /\ result' = Result(FALSE, compile_output, runtime_output,
                                  ReturnedErrors(all_errors))
              /\ exit_path' = "findings"
         ELSE /\ result' = Result(TRUE, compile_output, runtime_output, <<>>)
              /\ exit_path' = "success"
  /\ tmpdir' = "removed"
  /\ fs' = fs \ {tmp_name}
  /\ UNCHANGED << tmp_name, parked >>
  /\ pc' = "returned"
  /\ UNCHANGED << output, matches, ERROR_PATTERNS, which, code, code_smells, compile_proc,
                  returncode, compile_output, run_proc, runtime_output, scans,
                  spawns >>

\* Variant: the handler returns the captured runtime output.
HandleTimeout_CapturedOutput ==
  /\ pc = "TimedOut"
  /\ result' = Result(FALSE, compile_output, runtime_output, Combined(code_smells))
  /\ tmpdir' = "removed"
  /\ fs' = fs \ {tmp_name}
  /\ UNCHANGED << tmp_name, parked >>
  /\ exit_path' = "timeout"
  /\ pc' = "returned"
  /\ UNCHANGED << output, matches, ERROR_PATTERNS, which, code, code_smells,
                  compile_proc, returncode, compile_output, run_proc,
                  runtime_output, scans, spawns >>

\* Variant: the workspace is not removed when the handler returns.
HandleTimeout_KeepsWorkspace ==
  /\ pc = "TimedOut"
  /\ result' = Result(FALSE, compile_output, TimedOutNotice, Combined(code_smells))
  /\ exit_path' = "timeout"
  /\ pc' = "returned"
  /\ UNCHANGED << output, matches, ERROR_PATTERNS, which, code, code_smells,
                  tmpdir, compile_proc, returncode, compile_output, run_proc,
                  runtime_output, scans, spawns >>
  /\ UNCHANGED << tmp_name, fs, parked >>

\* 10. except subprocess.TimeoutExpired
HandleTimeout ==
  /\ pc = "TimedOut"
  /\ result' = Result(FALSE, compile_output, TimedOutNotice, Combined(code_smells))
  /\ tmpdir' = "removed"
  /\ fs' = fs \ {tmp_name}
  /\ UNCHANGED << tmp_name, parked >>
  /\ exit_path' = "timeout"
  /\ pc' = "returned"
  /\ UNCHANGED << output, matches, ERROR_PATTERNS, which, code, code_smells, compile_proc,
                  returncode, compile_output, run_proc, runtime_output, scans,
                  spawns >>

Next ==
  \/ GuardEnvironment
  \/ GuardInput
  \/ Scan
  \/ WriteSource
  \/ CreateWorkspaceFails
  \/ WriteFileFails
  \/ Compile
  \/ CompilerExits
  \/ CompileFailed
  \/ RunProgram
  \/ ProgramExits
  \/ ProgramOutputUndecodable
  \/ DeadlineExpires
  \/ Aggregate
  \/ HandleTimeout

Spec == Init /\ [][Next]_vars

(***************************************************************************)
(* The classifier on its own: parse_javac_output applied to every text of  *)
(* ParseTexts under every rule table.                                      *)
(***************************************************************************)
InitParse ==
  /\ ERROR_PATTERNS \in RuleTables
  /\ output \in ParseTexts
  /\ matches = <<>>
  /\ pc = "parse_call"
  /\ which = [javac |-> TRUE, java |-> TRUE]
  /\ code = {}
  /\ code_smells = <<>>
  /\ tmpdir = "none"
  /\ compile_proc = "none"
  /\ returncode = 0
  /\ compile_output = <<>>
  /\ run_proc = "none"
  /\ runtime_output = <<>>
  /\ result = NoResult
  /\ exit_path = "none"
  /\ scans = 0
  /\ spawns = <<>>
  /\ tmp_name = ""
  /\ fs = {}
  /\ parked = Absent

CallParse ==
  /\ pc = "parse_call"
  /\ matches' = parse_javac_output(ERROR_PATTERNS, output)
  /\ pc' = "parse_done"
  /\ UNCHANGED << output, ERROR_PATTERNS, which, code, code_smells, tmpdir,
                  compile_proc, returncode, compile_output, run_proc,
                  runtime_output, result, exit_path, scans, spawns >>
  /\ UNCHANGED << tmp_name, fs, parked >>

NextParse == CallParse

SpecParse == InitParse /\ [][NextParse]_vars

(***************************************************************************)
(* The runtime classifier on its own: analyze_runtime_output applied to    *)
(* every text of ParseTexts under every rule table.                        *)
(***************************************************************************)
InitRuntime ==
  /\ ERROR_PATTERNS \in RuleTables
  /\ output \in ParseTexts
  /\ matches = <<>>
  /\ pc = "runtime_call"
  /\ which = [javac |-> TRUE, java |-> TRUE]
  /\ code = {}
  /\ code_smells = <<>>
  /\ tmpdir = "none"
  /\ compile_proc = "none"
  /\ returncode = 0
  /\ compile_output = <<>>
  /\ run_proc = "none"
  /\ runtime_output = <<>>
  /\ result = NoResult
  /\ exit_path = "none"
  /\ scans = 0
  /\ spawns = <<>>
  /\ tmp_name = ""
  /\ fs = {}
  /\ parked = Absent

CallRuntime ==
  /\ pc = "runtime_call"
  /\ matches' = analyze_runtime_output(ERROR_PATTERNS, output)
  /\ pc' = "runtime_done"
  /\ UNCHANGED << output, ERROR_PATTERNS, which, code, code_smells, tmpdir,
                  compile_proc, returncode, compile_output, run_proc,
                  runtime_output, result, exit_path, scans, spawns >>
  /\ UNCHANGED << tmp_name, fs, parked >>

NextRuntime == CallRuntime

SpecRuntime == InitRuntime /\ [][NextRuntime]_vars

(***************************************************************************)
(* find_public_class_name on its own.  A source text is a sequence of      *)
(* lines; for each kind of line, pub is the identifier the first regex     *)
(* (public, white space, class, white space, identifier) captures in it,   *)
(* cls the identifier the second regex (class, white space, identifier)    *)
(* captures, "" when the regex does not match, and decl says what the line *)
(* is in Java: the declaration of a public class, of a class that is not   *)
(* public, or no declaration.                                              *)
(***************************************************************************)
LineInfo ==
  [ public_class_A |-> [pub |-> "A",    cls |-> "A",    decl |-> "public"],
    class_B        |-> [pub |-> "",     cls |-> "B",    decl |-> "plain"],
    class_C        |-> [pub |-> "",     cls |-> "C",    decl |-> "plain"],
    comment_class  |-> [pub |-> "",     cls |-> "for",  decl |-> "none"],
    comment_public |-> [pub |-> "Demo", cls |-> "Demo", decl |-> "none"],
    statement      |-> [pub |-> "",     cls |-> "",     decl |-> "none"] ]

DeclTexts == SeqsUpTo(DOMAIN LineInfo, MaxDeclLen)

\* re.search(...).group(1): the capture of the leftmost match, "" if none.
RECURSIVE FirstCapture(_, _)
FirstCapture(text, field) ==
  IF text = <<>> THEN ""
  ELSE IF LineInfo[Head(text)][field] # ""
       THEN LineInfo[Head(text)][field]
       ELSE FirstCapture(Tail(text), field)

find_public_class_name(text) ==
  IF FirstCapture(text, "pub") # ""
  THEN FirstCapture(text, "pub")
  ELSE IF FirstCapture(text, "cls") # ""
       THEN FirstCapture(text, "cls")
       ELSE "Main"

\* java_file = tmp_path / f"{class_name}.java"
java_file(class_name) == << class_name, ".java" >>

\* ["java", "-cp", str(tmp_path), class_name]
RunCommand(class_name) == << "java", "-cp", "tmp_path", class_name >>

InitName ==
  /\ ERROR_PATTERNS \in RuleTables
  /\ output \in DeclTexts
  /\ matches = ""
  /\ pc = "name_call"
  /\ which = [javac |-> TRUE, java |-> TRUE]
  /\ code = {}
  /\ code_smells = <<>>
  /\ tmpdir = "none"
  /\ compile_proc = "none"
  /\ returncode = 0
  /\ compile_output = <<>>
  /\ run_proc = "none"
  /\ runtime_output = <<>>
  /\ result = NoResult
  /\ exit_path = "none"
  /\ scans = 0
  /\ spawns = <<>>
  /\ tmp_name = ""
  /\ fs = {}
  /\ parked = Absent

\* class_name = find_public_class_name(code)
CallName ==
  /\ pc = "name_call"
  /\ matches' = find_public_class_name(output)
  /\ pc' = "name_done"
  /\ UNCHANGED << output, ERROR_PATTERNS, which, code, code_smells, tmpdir,
                  compile_proc, returncode, compile_output, run_proc,
                  runtime_output, result, exit_path, scans, spawns >>
  /\ UNCHANGED << tmp_name, fs, parked >>

NextName == CallName

SpecName == InitName /\ [][NextName]_vars

(***************************************************************************)
(* Properties                                                              *)
(***************************************************************************)
Returned == pc = "returned"

Ended == pc \in {"returned", "raised"}

errors == result.errors

ToolchainPresent == which.javac /\ which.java

\* The input guard's condition as the text states it.
HasInteractiveRead ==
  /\ \E f \in code : "Scanner" \in Occurs(f)
  /\ \E f \in code : Occurs(f) \cap {"nextInt()", "nextLine()", "next()"} # {}

CompilerFailed == compile_proc = "exited" /\ returncode # 0

\* C1: on every exit path the returned errors list has at most 3 entries.
C1_ErrorsAtMostThree == Returned => Len(errors) <= 3

C3_SuccessOnlyWhenClean ==
  (Returned /\ result.success) =>
    /\ ToolchainPresent
    /\ ~HasInteractiveRead
    /\ compile_proc = "exited" /\ returncode = 0
    /\ run_proc = "exited"
    /\ analyze_runtime_output(ERROR_PATTERNS, runtime_output) = <<>>
    /\ detect_code_smells(code) = <<>>
    /\ errors = <<>>

C3_Witness == Returned /\ result.success /\ compile_output # <<>>

\* C4: once the call has returned or raised, its workspace directory does not
\* exist, and the guard paths never create one.
C4_WorkspaceGone ==
  /\ Ended => tmpdir # "exists"
  /\ exit_path \in {"env", "input"} => tmpdir = "none"

C4_Witness == Returned /\ tmpdir = "removed" /\ exit_path = "timeout"

\* C5: with javac or java missing the call returns success=false with the one
\* diagnostic java_not_available and empty outputs, whatever the source, and
\* creates no workspace and spawns no process.
C5_EnvironmentGuard ==
  ~ToolchainPresent =>
    /\ tmpdir = "none"
    /\ spawns = <<>>
    /\ compile_proc = "none" /\ run_proc = "none"
    /\ pc \in {"GuardEnvironment", "returned"}
    /\ Returned =>
         /\ result.success = FALSE
         /\ result.compile_output = <<>> /\ result.runtime_output = <<>>
         /\ Len(errors) = 1
         /\ errors[1].id = <<"java", "not", "available">>

C5_Witness == Returned /\ which.javac /\ ~which.java /\ HasInteractiveRead

\* C6: with the toolchain present and an interactive read in the source the
\* call returns success=false with the one diagnostic requires_input and
\* empty outputs, and no compiler or runtime process is ever spawned.
C6_InputGuard ==
  (ToolchainPresent /\ HasInteractiveRead) =>
    /\ spawns = <<>>
    /\ compile_proc = "none" /\ run_proc = "none"
    /\ Ended =>
         /\ Returned
         /\ result.success = FALSE
         /\ result.compile_output = <<>> /\ result.runtime_output = <<>>
         /\ Len(errors) = 1
         /\ errors[1].id = <<"requires", "input">>

C6_Witness == Returned /\ ToolchainPresent /\ HasInteractiveRead

\* C7: the scanner runs exactly once in every call, on every path including
\* the two guard short-circuits, and before any child process is spawned.
C7_ScanExactlyOnce ==
  /\ Ended => scans = 1
  /\ spawns # <<>> => scans = 1

\* C7 (amended): the scanner runs exactly once in every call that passes both
\* guards, before any child process is spawned, and not at all in a call that
\* a guard short-circuits.
C7_ScanOnceAfterGuards ==
  /\ scans <= 1
  /\ spawns # <<>> => scans = 1
  /\ Ended => (scans = 1 <=> (ToolchainPresent /\ ~HasInteractiveRead))

C7_Witness == Returned /\ scans = 1 /\ spawns = <<"javac", "java">>

\* C8: when the compiler exits non-zero the call returns success=false, empty
\* runtime_output, the captured compiler text as compile_output and only the
\* diagnostics of classifying that text: no scanner finding, no runtime
\* diagnostic, and the runtime process is never spawned.
C8_CompileFailure ==
  CompilerFailed =>
    /\ run_proc = "none"
    /\ \A i \in 1..Len(spawns) : spawns[i] # "java"
    /\ pc \in {"CheckCompile", "returned"}
    /\ Returned =>
         /\ result.success = FALSE
         /\ result.runtime_output = <<>>
         /\ result.compile_output = compile_output
         /\ errors = parse_javac_output(ERROR_PATTERNS, compile_output)
         /\ \A i \in 1..Len(errors) : errors[i].kind \in {"rule", "fallback"}

C8_Witness ==
  /\ Returned /\ CompilerFailed
  /\ code_smells # <<>>
  /\ Len(errors) = 1 /\ errors[1].kind = "rule"

\* C9: whenever the compiler exits non-zero the returned errors list is not
\* empty, whatever the captured compiler text is.
C9_CompileFailureReported ==
  (Returned /\ CompilerFailed) => errors # <<>>

\* The rules of the table that produce a scored match on the text.
MatchingRules ==
  {i \in 1..Len(ERROR_PATTERNS) : RuleMatches(ERROR_PATTERNS[i], output)}

\* C10: when at least one rule matches, parse_javac_output returns exactly one
\* diagnostic, and it comes from a rule whose score is maximal among the
\* matching rules.
C10_TopRankedMatch ==
  (pc = "parse_done" /\ MatchingRules # {}) =>
    /\ Len(matches) = 1
    /\ \E i \in MatchingRules :
         /\ matches[1].id = ERROR_PATTERNS[i].id
         /\ \A j \in MatchingRules :
              Score(ERROR_PATTERNS[j], output) <= Score(ERROR_PATTERNS[i], output)

\* Two rules of different score match and the later one in the table wins.
C10_Witness ==
  /\ pc = "parse_done"
  /\ \E i, j \in MatchingRules :
       /\ i < j
       /\ Score(ERROR_PATTERNS[i], output) < Score(ERROR_PATTERNS[j], output)
       /\ Len(matches) = 1
       /\ matches[1].id = ERROR_PATTERNS[j].id

\* The run hit the deadline.
TimedOut == run_proc = "killed"

\* C11: when the program exceeds the deadline the call does not raise: it
\* returns success=false with the timeout diagnostic first in errors,
\* followed only by scanner findings.
C11_TimeoutReported ==
  (TimedOut /\ Ended) =>
    /\ Returned
    /\ result.success = FALSE
    /\ Len(errors) >= 1
    /\ errors[1].id = <<"timeout">>
    /\ \A i \in 2..Len(errors) : errors[i].kind = "smell"

C11_Witness == TimedOut /\ Returned /\ Len(errors) > 1

\* C12: on the timeout path the returned runtime_output is the empty string.
C12_TimeoutOutputEmpty ==
  (TimedOut /\ Returned) => result.runtime_output = <<>>

\* C12 (amended): on the timeout path the returned runtime_output is the fixed
\* notice "Program execution timed out.", whatever the program printed.
C12_TimeoutOutputNotice ==
  (TimedOut /\ Returned) =>
    result.runtime_output = << "Program execution timed out." >>

C12_Witness == TimedOut /\ Returned /\ result.compile_output # <<>>

\* The text has a character that is not white space.
NotBlank(t) == \E i \in 1..Len(t) : ~MsgInfo[t[i]].blank

HasInfiniteLoop ==
  \E f \in code : Occurs(f) \cap {"while(true)", "for(;;)"} # {}

\* C14: for a source with a while(true) or for(;;) loop that passes both
\* guards and compiles, the returned result has success=false and its errors
\* contain 2_infinite_loop, however the run ends and whatever else fires.
C14_InfiniteLoopReported ==
  (Returned /\ HasInfiniteLoop /\ ToolchainPresent /\ ~HasInteractiveRead
     /\ compile_proc = "exited" /\ returncode = 0) =>
    /\ result.success = FALSE
    /\ \E i \in 1..Len(errors) : errors[i].id = <<"2", "infinite", "loop">>

\* The loop finding is the last entry the cap keeps.
C14_Witness ==
  /\ Returned /\ exit_path = "findings"
  /\ Len(errors) = 3
  /\ errors[1].kind = "rule"
  /\ errors[3].id = <<"2", "infinite", "loop">>
  /\ Len(code_smells) > 2

\* C16: the call always ends by returning a result and never by raising,
\* except when creating the workspace or writing the source file fails.
C16_RaisesOnlyOnWorkspaceFailure ==
  Ended => (Returned \/ (pc = "raised" /\ spawns = <<>> /\ compile_proc = "none"))

\* The rules whose pattern is not empty, compiles and is found in the text.
UsableHits ==
  {i \in 1..Len(ERROR_PATTERNS) :
     /\ ERROR_PATTERNS[i].pat.len # 0
     /\ ERROR_PATTERNS[i].pat.valid
     /\ \E k \in 1..Len(output) : output[k] \in DOMAIN ERROR_PATTERNS[i].pat.m}

\* The rules whose pattern does not compile although it would hit the text.
BrokenHits ==
  {i \in 1..Len(ERROR_PATTERNS) :
     /\ ~ERROR_PATTERNS[i].pat.valid
     /\ \E k \in 1..Len(output) : output[k] \in DOMAIN ERROR_PATTERNS[i].pat.m}

\* C17: a rule whose pattern is not a valid regex never produces a diagnostic
\* and never stops the other rules from being evaluated: every returned
\* non-fallback diagnostic comes from a rule whose regex compiles, and a
\* usable rule that hits the text is still reported.
C17_InvalidRuleSkipped ==
  pc = "parse_done" =>
    /\ \A k \in 1..Len(matches) :
         matches[k].kind # "fallback" =>
           \E i \in UsableHits : ERROR_PATTERNS[i].id = matches[k].id
    /\ UsableHits # {} => (Len(matches) = 1 /\ matches[1].kind = "rule")

\* A broken rule precedes a usable one in the table and both hit the text.
C17_Witness ==
  /\ pc = "parse_done"
  /\ \E i \in BrokenHits : \E j \in UsableHits :
       i < j /\ matches = << Diag(ERROR_PATTERNS[j].id, "rule",
                                   matches[1].detail_len) >>

\* C18: within one call the compiler is spawned at most once and the runtime
\* at most once, and the runtime only after the compiler exited with status 0.
C18_SpawnAtMostOnce ==
  /\ spawns \in {<<>>, <<"javac">>, <<"javac", "java">>}
  /\ Len(spawns) = 2 => (compile_proc = "exited" /\ returncode = 0)
  /\ (compile_proc = "exited" /\ returncode # 0) => Len(spawns) = 1

C18_Witness == Returned /\ TimedOut /\ spawns = <<"javac", "java">>

\* C20: when both guards pass, the compiler exits zero, the program finishes
\* before the deadline without an exception or error signature in its output
\* and the scanner reports nothing, the call returns success=true with no
\* errors and the captured compile and runtime output.
C20_CleanRunSucceeds ==
  (Returned /\ ToolchainPresent /\ ~HasInteractiveRead
     /\ compile_proc = "exited" /\ returncode = 0
     /\ run_proc = "exited"
     /\ ~HasException(runtime_output) /\ ~HasError(runtime_output)
     /\ detect_code_smells(code) = <<>>) =>
    result = Result(TRUE, compile_output, runtime_output, <<>>)

C20_Witness ==
  /\ Returned /\ result.success
  /\ result.runtime_output = <<"hello">>
  /\ result.compile_output = <<"semi">>

(***************************************************************************)
(* Two calls of analyze_java_code on one host, e.g. two request threads of *)
(* the server.  The variables hold the local state of the call that is     *)
(* running, parked the local state of the other one; Switch hands the      *)
(* processor over at any statement.  The rule table, the toolchain and the *)
(* file system are shared.                                                 *)
(***************************************************************************)
\* The sources the two calls are given.
CallSources ==
  { {},
    {"while(true)", "i<length"},
    {"Scanner", "nextInt()"},
    {"Git", "edge", "@Test", "assert", "final class"} }

\* The local state of the running call.
Locals ==
  [code |-> code, pc |-> pc, code_smells |-> code_smells, tmpdir |-> tmpdir,
   tmp_name |-> tmp_name, compile_proc |-> compile_proc,
   returncode |-> returncode, compile_output |-> compile_output,
   run_proc |-> run_proc, runtime_output |-> runtime_output,
   result |-> result, exit_path |-> exit_path, scans |-> scans,
   spawns |-> spawns]

InitCalls ==
  /\ ERROR_PATTERNS \in RuleTables
  /\ which \in [javac : BOOLEAN, java : BOOLEAN]
  /\ code \in CallSources
  /\ parked \in {FreshCall(c) : c \in CallSources}
  /\ pc = "GuardEnvironment"
  /\ code_smells = <<>>
  /\ tmpdir = "none"
  /\ tmp_name = ""
  /\ fs = {}
  /\ compile_proc = "none"
  /\ returncode = 0
  /\ compile_output = <<>>
  /\ run_proc = "none"
  /\ runtime_output = <<>>
  /\ result = NoResult
  /\ exit_path = "none"
  /\ scans = 0
  /\ spawns = <<>>
  /\ output = <<>>
  /\ matches = <<>>

\* The other call gets the processor.
Switch ==
  /\ parked.pc # "absent"
  /\ parked' = Locals
  /\ code' = parked.code
  /\ pc' = parked.pc
  /\ code_smells' = parked.code_smells
  /\ tmpdir' = parked.tmpdir
  /\ tmp_name' = parked.tmp_name
  /\ compile_proc' = parked.compile_proc
  /\ returncode' = parked.returncode
  /\ compile_output' = parked.compile_output
  /\ run_proc' = parked.run_proc
  /\ runtime_output' = parked.runtime_output
  /\ result' = parked.result
  /\ exit_path' = parked.exit_path
  /\ scans' = parked.scans
  /\ spawns' = parked.spawns
  /\ UNCHANGED << ERROR_PATTERNS, which, fs, output, matches >>

NextCalls == Next \/ Switch

SpecCalls == InitCalls /\ [][NextCalls]_vars

\* Both calls have returned, and they were given the same source and saw the
\* same compiler and program behaviour.
SameCallTwice ==
  /\ Returned /\ parked.pc = "returned"
  /\ parked.code = code
  /\ parked.compile_proc = compile_proc
  /\ parked.returncode = returncode
  /\ parked.compile_output = compile_output
  /\ parked.run_proc = run_proc
  /\ parked.runtime_output = runtime_output

\* C15: two calls with the same source, the same toolchain and the same
\* compiler and program behaviour return the same success value and the same
\* set of diagnostic ids.
C15_SameInputsSameResult ==
  SameCallTwice =>
    /\ parked.result.success = result.success
    /\ Ids(parked.result.errors) = Ids(errors)

\* Two equal calls that both reported a rule match of the compiler text.
C15_Witness ==
  /\ SameCallTwice
  /\ exit_path = "compile"
  /\ Len(errors) = 1 /\ errors[1].kind = "rule"

\* No two calls hold the same workspace directory.
WorkspacesDistinct ==
  (tmpdir = "exists" /\ parked.tmpdir = "exists") => tmp_name # parked.tmp_name

\* What a call returns when it runs alone, from its own source and the
\* behaviour of its own child processes.
AloneResult(l) ==
  IF ~ToolchainPresent
  THEN Result(FALSE, <<>>, <<>>, << java_not_available >>)
  ELSE IF /\ \E f \in l.code : "Scanner" \in Occurs(f)
          /\ \E f \in l.code :
               Occurs(f) \cap {"nextInt()", "nextLine()", "next()"} # {}
  THEN Result(FALSE, <<>>, <<>>, << requires_input >>)
  ELSE IF l.returncode # 0
  THEN Result(FALSE, l.compile_output, <<>>,
              CompileErrors(ERROR_PATTERNS, l.compile_output))
  ELSE IF l.run_proc = "killed"
  THEN Result(FALSE, l.compile_output, TimedOutNotice,
              Combined(detect_code_smells(l.code)))
  ELSE LET all_errors == AllErrors(ERROR_PATTERNS, l.runtime_output,
                                   detect_code_smells(l.code))
       IN  Result(all_errors = <<>>, l.compile_output, l.runtime_output,
                  ReturnedErrors(all_errors))

OwnResult(l) == l.pc = "returned" => l.result = AloneResult(l)

\* C19: however two calls interleave, each returns what it would return alone,
\* the rule table is never modified, and the two calls never hold the same
\* workspace directory.
C19_CallsIndependent ==
  /\ [][ERROR_PATTERNS' = ERROR_PATTERNS]_vars
  /\ [](WorkspacesDistinct /\ OwnResult(Locals) /\ OwnResult(parked))

\* A call returns findings while the other call is between its compile and
\* run steps with its own workspace.
C19_Witness ==
  /\ Returned /\ exit_path = "findings"
  /\ parked.pc = "CheckCompile" /\ parked.tmpdir = "exists"
  /\ parked.code # code

\* The index in the table of the rule with the given id.
RuleOf(id) == CHOOSE i \in 1..Len(ERROR_PATTERNS) : ERROR_PATTERNS[i].id = id

Sorted == SortByScore(ScoredMatches(ERROR_PATTERNS, output))

\* The position of rule i's match in the sorted list.
Rank(i) == CHOOSE k \in 1..Len(Sorted) : Sorted[k].id = ERROR_PATTERNS[i].id

\* The marker phrases in the text rule i matched.
MatchedWords(i) ==
  ERROR_PATTERNS[i].pat.m[output[Search(ERROR_PATTERNS[i].pat, output)]].words

TypePhrases == {"incompatible types", "cannot convert", "lossy conversion"}

\* The score is ten times the pattern length, plus 100 exactly when the
\* matched text holds one of the phrases; and of two matching rules with
\* equally long patterns, one with such a phrase and one without, the first is
\* ranked above the second.
BonusFor(phrases) ==
  pc = "parse_done" =>
    /\ \A i \in MatchingRules :
         Sorted[Rank(i)].score =
           ERROR_PATTERNS[i].pat.len * 10
             + (IF MatchedWords(i) \cap phrases # {} THEN 100 ELSE 0)
    /\ \A i, j \in MatchingRules :
         ( /\ ERROR_PATTERNS[i].pat.len = ERROR_PATTERNS[j].pat.len
           /\ MatchedWords(i) \cap phrases # {}
           /\ MatchedWords(j) \cap phrases = {} )
           => Rank(i) < Rank(j)

\* C22: the score of a match is a base proportional to the pattern length plus
\* a fixed bonus whenever the matched text contains a high-signal marker (an
\* "expected" keyword, a punctuation-expectation marker, an "illegal start"
\* marker or a type-incompatibility phrase); of two matching rules with equally
\* long patterns, the one whose matched text has a marker is ranked above the
\* one whose matched text has none.
C22_MarkerBonus == BonusFor(Markers)

\* C22 (amended): the bonus is added exactly when the matched text contains a
\* type-incompatibility phrase ("incompatible types", "cannot convert", "lossy
\* conversion"); of two matching rules with equally long patterns, the one
\* whose matched text has such a phrase is ranked above the one whose matched
\* text has none.
C22_TypePhraseBonus == BonusFor(TypePhrases)

\* Two rules with equally long patterns match, the later one in the table on a
\* text with a type-incompatibility phrase, the earlier one on a text without.
C22_Witness ==
  /\ pc = "parse_done"
  /\ \E i, j \in MatchingRules :
       /\ j < i
       /\ ERROR_PATTERNS[i].pat.len = ERROR_PATTERNS[j].pat.len
       /\ MatchedWords(i) \cap TypePhrases # {}
       /\ MatchedWords(j) \cap Markers = {}
       /\ Rank(i) < Rank(j)

\* The call returned from the path on which the program ran to completion.
RunCompleted == Returned /\ exit_path \in {"findings", "success"}

NotSmell(e) == e.kind # "smell"

\* The returned diagnostics that are not scanner findings.
RuntimePart == SelectSeq(errors, NotSmell)

\* C23: on the path where the program ran to completion, the runtime
\* diagnostics merged into the result are exactly parse_javac_output applied
\* to the runtime output, for every runtime output.
C23_RuntimeIsClassification ==
  RunCompleted =>
    RuntimePart = parse_javac_output(ERROR_PATTERNS, runtime_output)

\* C23 (amended): on that path the runtime diagnostics merged into the result
\* are exactly parse_javac_output applied to the runtime output when the
\* output carries an Exception in thread "..." signature; an output without
\* it is not given to the scorer and contributes no rule match and no fallback.
C23_ExceptionIsClassification ==
  RunCompleted =>
    IF \E i \in 1..Len(runtime_output) : MsgInfo[runtime_output[i]].exc
    THEN RuntimePart = parse_javac_output(ERROR_PATTERNS, runtime_output)
    ELSE \A i \in 1..Len(RuntimePart) :
           RuntimePart[i].kind \notin {"rule", "fallback"}

\* An exception was classified and returned together with scanner findings.
C23_Witness ==
  /\ RunCompleted
  /\ \E i \in 1..Len(runtime_output) : MsgInfo[runtime_output[i]].exc
  /\ Len(RuntimePart) = 1 /\ RuntimePart[1].kind = "rule"
  /\ Len(errors) = 3

\* C24: the branch taken after compilation depends only on the compiler's exit
\* status: with status zero the next step starts the program, whatever the
\* compiler printed, and with a non-zero status the next step is the
\* compile-failure return, even when the compiler printed nothing.
C24_BranchOnStatusOnly ==
  [][ pc = "CheckCompile" =>
        /\ returncode = 0 =>
             /\ pc' = "RunWait"
             /\ run_proc' = "running"
             /\ spawns' = Append(spawns, "java")
        /\ returncode # 0 =>
             /\ pc' = "returned"
             /\ exit_path' = "compile"
             /\ run_proc' = "none" ]_vars

\* The program was started although the compiler printed a line that a rule
\* matches.
C24_Witness ==
  /\ pc = "RunWait"
  /\ returncode = 0
  /\ parse_javac_output(ERROR_PATTERNS, compile_output) # <<>>
  /\ parse_javac_output(ERROR_PATTERNS, compile_output)[1].kind = "rule"

(***************************************************************************)
(* Progress of one call.  The statements of analyze_java_code run one      *)
(* after the other, and subprocess.run(timeout=5) returns or raises within *)
(* the deadline, so a call that has not ended executes its next statement, *)
(* which in every action of Next changes pc.  The one exception is the     *)
(* compile step: it has no deadline and nothing makes the compiler exit.   *)
(***************************************************************************)
InitLive == Init /\ code \in CallSources

Positions ==
  {"GuardEnvironment", "GuardInput", "Scan", "WriteSource", "Compile",
   "CompileWait", "CheckCompile", "RunWait", "ClassifyRuntime", "TimedOut",
   "returned", "raised"}

\* The call executes its next statement.
MovesOn ==
  /\ pc \notin {"CompileWait", "returned", "raised"}
  /\ pc' \in Positions \ {pc}

SpecLive == InitLive /\ [][Next]_vars /\ WF_pc(MovesOn)

\* C25: every call reaches a terminal state unless the compiler never exits:
\* a call waiting for the program ends, a call whose compiler has exited ends,
\* and no child process of the call is running when it has returned.
C25_Terminates ==
  /\ [](Ended => (compile_proc # "running" /\ run_proc # "running"))
  /\ <>(Ended \/ pc = "CompileWait")
  /\ (compile_proc = "exited") ~> Ended
  /\ (pc = "RunWait") ~> Ended

\* A call returned after the deadline killed its program.
C25_Witness ==
  /\ Returned
  /\ run_proc = "killed"
  /\ spawns = <<"javac", "java">>

\* The lines of the text that declare a class, and those that declare a
\* public class.
ClassDecls == {i \in 1..Len(output) : LineInfo[output[i]].decl # "none"}

PublicDecls == {i \in 1..Len(output) : LineInfo[output[i]].decl = "public"}

First(S) == CHOOSE i \in S : \A j \in S : i <= j

\* The name the primary type gives: the first public class declared, else the
\* first class declared, else Main.
PrimaryTypeName ==
  IF PublicDecls # {} THEN LineInfo[output[First(PublicDecls)]].cls
  ELSE IF ClassDecls # {} THEN LineInfo[output[First(ClassDecls)]].cls
       ELSE "Main"

\* C26: the source file is named after the detected primary type: the name of
\* the first public class declaration if the text has one, otherwise the name
\* of the first class declaration, otherwise Main; the same name is the class
\* passed to the runtime.
C26_NamedAfterPrimaryType ==
  pc = "name_done" =>
    /\ java_file(matches) = << PrimaryTypeName, ".java" >>
    /\ RunCommand(matches)[4] = PrimaryTypeName

\* The source text holds every word the five unconditional best-practice
\* checks look for.
ShowsPractices ==
  /\ InLower("git", code)
  /\ InLower("edge", code) \/ InLower("boundary", code)
  /\ In("@Test", code) \/ In("JUnit", code)
  /\ InLower("assert", code) \/ In("IllegalArgumentException", code)
  /\ In("final class", code) \/ In("record ", code) \/ InLower("immutable", code)

\* C28: success=true is returned only for a source that contains "git",
\* "edge" or "boundary", "@Test" or "JUnit", "assert" or
\* "IllegalArgumentException", and "final class", "record " or "immutable";
\* for every other source that passes the guards, compiles and runs, the
\* scanner yields at least one finding and success is false.
C28_SuccessNeedsPractices ==
  /\ (Returned /\ result.success) => ShowsPractices
  /\ (RunCompleted /\ ~ShowsPractices) =>
       /\ code_smells # <<>>
       /\ result.success = FALSE
       /\ \E i \in 1..Len(errors) : errors[i].kind = "smell"

\* A program that ran cleanly is refused for the one word its source lacks.
C28_Witness ==
  /\ RunCompleted
  /\ ~InLower("git", code)
  /\ runtime_output = <<"hello">>
  /\ Len(errors) = 1
  /\ errors[1].id = <<"bp", "19", "version", "control">>

\* The ids of the scanner's checks, in check order.
CheckIds == LET checks == SmellChecks(code) IN [k \in 1..Len(checks) |-> checks[k].id]

\* The runtime output carries an exception or error signature.
HasSignature ==
  \E i \in 1..Len(runtime_output) :
    MsgInfo[runtime_output[i]].exc \/ MsgInfo[runtime_output[i]].err

\* C27: on the run-completed path the runtime diagnostic, when there is one,
\* is the first entry of errors and the scanner findings follow it in check
\* order; the cap of 3 never drops the runtime diagnostic, it drops only the
\* scanner findings that come latest in check order.
C27_RuntimeFirstThenChecks ==
  RunCompleted =>
    LET k == Len(RuntimePart)
        order == CheckIds
        CheckIndex(id) == CHOOSE n \in DOMAIN order : order[n] = id
    IN  /\ \A i \in 2..Len(errors) : errors[i].kind = "smell"
        /\ HasSignature => (k = 1 /\ errors[1].kind # "smell")
        /\ \A i \in 1..(Len(code_smells) - 1) :
             CheckIndex(code_smells[i].id) < CheckIndex(code_smells[i + 1].id)
        /\ Len(errors) = Min(3, k + Len(code_smells))
        /\ \A i \in 1..(Len(errors) - k) : errors[k + i] = code_smells[i]

\* The cap dropped scanner findings and kept the runtime diagnostic.
C27_Witness ==
  /\ RunCompleted
  /\ HasSignature
  /\ Len(code_smells) > 2
  /\ Len(errors) = 3
  /\ errors[1].kind # "smell"
  /\ errors[3] = code_smells[2]

\* No id occurs twice in the list.
DistinctIds(ds) == \A i, j \in 1..Len(ds) : i # j => ds[i].id # ds[j].id

\* C29: the ids in errors are pairwise distinct in every returned result: the
\* scanner gives at most one finding per check, each with its own id, and the
\* merges of the run-completed and timeout paths add no id twice.
C29_IdsPairwiseDistinct ==
  /\ DistinctIds(code_smells)
  /\ Cardinality(Ids(code_smells)) = Len(code_smells)
  /\ Returned => (DistinctIds(errors) /\ Cardinality(Ids(errors)) = Len(errors))

\* The timeout path returned more than three findings.
C29_Witness ==
  /\ Returned
  /\ exit_path = "timeout"
  /\ Len(errors) > 3

\* The text carries an Exception in thread "..." signature.
CarriesException == \E i \in 1..Len(output) : MsgInfo[output[i]].exc

\* C30: analyze_runtime_output never returns the synthesized
\* runtime_exception diagnostic: for a text with an exception signature it
\* returns the one diagnostic parse_javac_output gives, a rule match or the
\* unknown fallback.
C30_NoSynthesizedException ==
  pc = "runtime_done" =>
    /\ \A i \in 1..Len(matches) : matches[i].id # <<"runtime", "exception">>
    /\ CarriesException =>
         /\ Len(matches) = 1
         /\ matches[1].kind \in {"rule", "fallback"}
         /\ MatchingRules = {} => matches[1].id = <<"unknown">>

\* An exception that no rule matches was reported through the fallback.
C30_Witness ==
  /\ pc = "runtime_done"
  /\ CarriesException
  /\ MatchingRules = {}
  /\ Len(matches) = 1
  /\ matches[1].kind = "fallback"

====
